---- MODULE Spec2Model ----
(***************************************************************************)
(* vitro-site: the Express servers of the repository (six variants of     *)
(* server.js), modelled as one state machine.  The state is the admin     *)
(* sessions, the persisted site document (the bytes of site-data.json),   *)
(* the POST /api/site requests in flight and the last answered request.   *)
(***************************************************************************)
EXTENDS Integers, Sequences, FiniteSets, TLC

\* ---------------------------------------------------------------- bounds
\* The clock (Date.now) is cut off at MaxTime.
MaxTime == 1

\* Sessions are followed for at most MaxElapse steps of the coarse clock.
MaxElapse == 3

\* The contact clock (Date.now of the limiter) makes at most MaxContactSteps
\* steps, and one address sends at most MaxRequests requests in a row.
MaxContactSteps == 3
MaxRequests == 12

\* ------------------------------------------------------ program constants
SiteCeiling18 == 18000000
SiteCeiling2 == 2000000
JsonLimit1mb == 1048576
JsonLimit2mb == 2097152
JsonLimit25mb == 26214400
JsonLimit50mb == 52428800

\* cookie: { maxAge: 1000 * 60 * 60 * 12 }, in milliseconds
SessionMaxAge == 1000 * 60 * 60 * 12

\* contactRateLimit: windowMs and max
WindowMs == 60000
ContactMax == 10

\* one step of the contact clock: half a window
ContactStep == WindowMs \div 2

\* one step of the coarse clock: six hours
TimeStep == SessionMaxAge \div 2

\* The server variants of the repository.
\*   basic    part_000   1-67   Basic Auth, Gemini proxy only
\*   smtp     part_000  69-380  sessions, SMTP contact, unvalidated /api/site
\*   brevo    part_000 382-560  no authentication, synchronous file access
\*   v2mb     part_001   1-225  sessions, 2 MB ceiling
\*   readmeA  README.md 29-348  sessions, 18 MB ceiling
\*   readmeB  README.md 350-647 sessions, 18 MB ceiling
Variants == {"basic", "smtp", "brevo", "v2mb", "readmeA", "readmeB"}

SessionVariants == {"smtp", "v2mb", "readmeA", "readmeB"}
SiteVariants == {"smtp", "brevo", "v2mb", "readmeA", "readmeB"}
GuardVariants == {"v2mb", "readmeA", "readmeB"}
GeminiVariants == {"basic", "smtp", "v2mb", "readmeA", "readmeB"}

Clients == {"c1", "c2"}
Writers == {"w1", "w2"}

VARIABLES
  variant,   \* which server.js is running
  envUser,   \* process.env.ADMIN_USER ("" when not set)
  envPass,   \* process.env.ADMIN_PASS ("" when not set)
  envKey,    \* process.env.GEMINI_API_KEY ("" when not set)
  now,       \* the clock
  sess,      \* per client: the session its cookie refers to
  file,      \* site-data.json on disk
  wr,        \* per request slot: a POST /api/site in flight or answered
  last,      \* the last request answered by a one-step handler
  life,      \* per client: the age and the idle time of its session
  contact    \* the mail configuration, the limiter's entry, the burst so far

vars ==
  <<variant, envUser, envPass, envKey, now, sess, file, wr, last, life, contact>>

\* ------------------------------------------------------------ JSON values
\* A JSON value as far as the handlers look at it:
\*   kind     undefined (no such field) | null | str | arr | obj | invalid
\*   title    the value of key "title" ("" when there is none)
\*   items    the number of index keys "0", "1", ...
\*   version  _meta.version (0 when there is none)
\*   savedAt  _meta.savedAt (-1 when there is none)
\*   bytes    Buffer.byteLength(JSON.stringify(value))
\*   len      the number of write calls its serialization takes
\*   wrap     TRUE when the value is the request body {data: value}
Val(k, t, n, v, s, b, l) ==
  [kind |-> k, title |-> t, items |-> n, version |-> v, savedAt |-> s,
   bytes |-> b, len |-> l, wrap |-> FALSE]

Undefined == Val("undefined", "", 0, 0, -1, 0, 1)
Null == Val("null", "", 0, 0, -1, 4, 1)
Scalar == Val("str", "", 0, 0, -1, 15, 1)
Arr == Val("arr", "", 2, 0, -1, 5, 1)
Garbage == Val("invalid", "", 0, 0, -1, 7, 1)
Hole == Val("invalid", "", 0, 0, -1, 0, 1)
ObjHi == Val("obj", "Hi", 0, 0, -1, 14, 1)
ObjYo == Val("obj", "Yo", 0, 0, -1, 40000, 2)
ObjMeta == Val("obj", "Hi", 0, 1, -1, 38, 1)
ObjOld == Val("obj", "Old", 0, 0, 0, 15, 1)
ObjOfSize(b) == Val("obj", "Big", 0, 0, -1, b, 2)

\* !x
Falsy(x) == ~x.wrap /\ x.kind \in {"undefined", "null"}

\* typeof x === "object"
TypeofObject(x) == x.wrap \/ x.kind \in {"null", "arr", "obj"}

\* { ...data, _meta: { savedAt: new Date().toISOString() } }
Spread(data, t) ==
  [kind |-> "obj", title |-> data.title, items |-> data.items, version |-> 0,
   savedAt |-> t, bytes |-> data.bytes, len |-> data.len, wrap |-> FALSE]

\* req.body of a request that sent {data: x} ({} when x is undefined)
Body(x) == [x EXCEPT !.wrap = TRUE]

\* JSON.stringify(value, null, 2): the chunks fs writes, in order
Serialize(x) == [i \in 1..x.len |-> [doc |-> x, idx |-> i]]

\* JSON.parse(raw) throws unless raw is the whole serialization of one value
ParseThrows(raw) ==
  \/ Len(raw) = 0
  \/ raw[1].doc.kind \in {"invalid", "undefined"}
  \/ raw # Serialize(raw[1].doc)

JSONparse(raw) == raw[1].doc

\* ------------------------------------------------------------------ files
\* state: missing | unreadable (EACCES) | present;  raw: the chunks on disk
File(s, raw) == [state |-> s, raw |-> raw]

InitFiles ==
  {File("missing", <<>>), File("unreadable", <<>>), File("present", <<>>),
   File("present", Serialize(Garbage)), File("present", Serialize(Scalar)),
   File("present", Serialize(Arr)), File("present", Serialize(ObjOld))}

\* the read without its catch: what JSON.parse throws reaches the caller
readSiteDataNoCatch(v, f) ==
  IF f.state # "present" THEN Null
  ELSE IF ParseThrows(f.raw) THEN Garbage
  ELSE JSONparse(f.raw)

\* readSiteData() / readJsonSafe(SITE_DATA_FILE): null stands for Absent
readSiteData(v, f) ==
  IF f.state # "present" \/ ParseThrows(f.raw) THEN Null
  ELSE IF v \in GuardVariants
       THEN LET json == JSONparse(f.raw)
            IN IF ~Falsy(json) /\ TypeofObject(json) THEN json ELSE Null
       ELSE JSONparse(f.raw)

\* x is a JSON object: not an array, not a scalar, not null
IsJsonObject(x) == x.wrap \/ x.kind = "obj"

\* the file holds the serialization of a JSON object
HoldsJsonObject(f) ==
  f.state = "present" /\ ~ParseThrows(f.raw) /\ IsJsonObject(JSONparse(f.raw))

\* ---------------------------------------------------------- configuration
\* process.env.ADMIN_USER || "admin"   (smtp: || "")
ADMIN_USER ==
  IF envUser # "" THEN envUser ELSE IF variant = "smtp" THEN "" ELSE "admin"

\* process.env.ADMIN_PASS || "change-me"   (smtp: || "")
ADMIN_PASS ==
  IF envPass # "" THEN envPass ELSE IF variant = "smtp" THEN "" ELSE "change-me"

\* express.json({ limit })
JsonLimit(v) ==
  CASE v = "basic" -> JsonLimit1mb
    [] v = "brevo" -> JsonLimit2mb
    [] v = "v2mb" -> JsonLimit50mb
    [] OTHER -> JsonLimit25mb

\* the guardrail of POST /api/site (smtp and brevo set none: the documented
\* 18 000 000 stands for the ceiling there)
Ceiling(v) == IF v = "v2mb" THEN SiteCeiling2 ELSE SiteCeiling18

\* ------------------------------------------------------------ the sessions
\* sess[c]: "none" (the client holds no cookie), "authed" (its cookie names a
\* stored session with authed = true), "destroyed" (its cookie names a session
\* the store no longer holds).
isAuthed(c) == sess[c] = "authed"

\* requireSessionApi: 0 stands for next()
requireSessionApi(c) == IF isAuthed(c) THEN 0 ELSE 401

\* Basic Auth credentials of a request (basic-auth's parse of Authorization)
NoCred == [present |-> FALSE, name |-> "", pass |-> ""]
Cred(u, p) == [present |-> TRUE, name |-> u, pass |-> p]

\* requireAdmin
requireAdmin(cred) ==
  IF ~cred.present \/ cred.name # ADMIN_USER \/ cred.pass # ADMIN_PASS
  THEN 401 ELSE 0

\* the middleware in front of POST /api/site
SiteGate(c) == IF variant \in SessionVariants THEN requireSessionApi(c) ELSE 0

\* the middleware in front of the Gemini proxy routes
GeminiGate(c, cred) ==
  IF variant = "basic" THEN requireAdmin(cred) ELSE requireSessionApi(c)

Lower(x) == IF x = "Boss" THEN "boss" ELSE IF x = "S3cret" THEN "s3cret" ELSE x

\* a comparison that ignores case
CredentialsMatchNoCase(u, p) ==
  Lower(u) = Lower(ADMIN_USER) /\ Lower(p) = Lower(ADMIN_PASS)

\* username === ADMIN_USER && password === ADMIN_PASS
CredentialsMatch(u, p) == u = ADMIN_USER /\ p = ADMIN_PASS

\* a login that resets the session when the credentials are wrong
LoginSessionReset(s, ok) == IF ok THEN "authed" ELSE "none"

\* if (username === ADMIN_USER && password === ADMIN_PASS)
\*   req.session.authed = true;
LoginSession(s, ok) == IF ok THEN "authed" ELSE s

\* a logout that answers without destroying the session
DestroySessionKept(s) == s

\* req.session.destroy()
DestroySession(s) == IF s = "none" THEN "none" ELSE "destroyed"

\* life[c]: age, the time since the last successful login on the session (the
\* session is created by its first one); idle, the time since the session was
\* last touched (express-session resets cookie.expires to
\* now + maxAge at the end of every request that carries the session);
\* logged, TRUE from a successful login to the next logout.
NoLife == [age |-> 0, idle |-> 0, logged |-> FALSE]

\* the session middleware on a request of client c: a stored session is touched
Touch(c) ==
  IF variant \in SessionVariants /\ sess[c] = "authed"
  THEN [life EXCEPT ![c].idle = 0]
  ELSE life

\* MemoryStore: a session whose cookie.expires <= Date.now() is dropped
Expired(l) == l.idle >= SessionMaxAge

\* !data || typeof data !== "object"
MissingData(data) == Falsy(data) \/ ~TypeofObject(data)

\* size > ceiling
PayloadTooLarge(v, size) == size > Ceiling(v)

\* ------------------------------------------------------- request records
\* ------------------------------------------------------------ the contact
\* the servers with a POST /api/contact
ContactVariants == {"smtp", "brevo", "readmeA", "readmeB"}

\* a field of the contact body: missing or "", blank, two letters, a text
FieldValues == {"", " ", "hi", "hello"}

\* String.prototype.trim
Trim(x) == IF x = " " THEN "" ELSE x

\* String.prototype.length
StrLen(x) == CASE x = "" -> 0 [] x = " " -> 1 [] x = "hi" -> 2 [] OTHER -> 5

ContactBody(n, e, m, w) == [name |-> n, email |-> e, message |-> m, website |-> w]

NoBody == ContactBody("", "", "", "")

\* the mail relay: configured; its recipient (CONTACT_TO, CONTACT_TO_EMAIL)
\* not set; its credentials (SMTP_HOST/USER/PASS, BREVO_API_KEY) not set
MailCfgs == {"ok", "noTo", "noSmtp"}

\* the addresses requests come from (req.ip)
Addresses == {"a1", "a2"}

\* the first entry of the X-Forwarded-For header a request carries ("": the
\* request carries none)
Forwarded == {""} \cup Addresses

\* req.headers["x-forwarded-for"]?.toString().split(",")[0]?.trim() || req.ip
Key(ip, xff) == IF xff # "" THEN xff ELSE ip

\* contactHits.get(ip) of a key the map does not hold
NoEntry == [known |-> FALSE, count |-> 0, ts |-> 0]

\* contact: mail, the configuration; now, Date.now(); hits, the map
\* contactHits; and, of the requests that came from address a1: lastT, the
\* time of the last one (-1: none); first, n, the time of the first one after
\* a quiet window and the number of them since; passed, how many of the first
\* ContactMax of them reached the handler; st11, t11, the status and the time
\* of the one after those (0: none yet); p0, p1, how many reached the handler
\* at the present time of the clock and at the one before.
NoContact ==
  [mail |-> "ok", now |-> 0, hits |-> [a \in Addresses |-> NoEntry],
   lastT |-> -1, first |-> 0, n |-> 0, passed |-> 0, st11 |-> 0, t11 |-> 0,
   p0 |-> 0, p1 |-> 0]

\* contactRateLimit: the entry after a request at time t
RateLimit(k, cnt, ts, t) ==
  LET c0 == IF k THEN cnt ELSE 0
      t0 == IF k THEN ts ELSE t
  IN IF t - t0 > WindowMs THEN [count |-> 1, ts |-> t]
     ELSE [count |-> c0 + 1, ts |-> t0]

Reply(st, h) == [status |-> st, handed |-> h]

\* transporter.sendMail / fetch(brevo): relay is ok | refused | throws
Relayed(v, relay) ==
  IF relay = "ok" THEN Reply(200, TRUE)
  ELSE IF v = "brevo" /\ relay = "refused" THEN Reply(502, TRUE)
  ELSE Reply(500, TRUE)

\* the handler of POST /api/contact
ContactHandler(v, mail, b, relay) ==
  CASE v = "smtp" ->
         IF Trim(b.website) # "" THEN Reply(200, FALSE)
         ELSE IF Trim(b.name) = "" \/ Trim(b.email) = "" \/ Trim(b.message) = ""
              THEN Reply(400, FALSE)
         ELSE IF mail # "ok" THEN Reply(500, FALSE)
         ELSE Relayed(v, relay)
    [] v = "brevo" ->
         IF StrLen(Trim(b.message)) < 3 THEN Reply(400, FALSE)
         ELSE IF mail # "ok" THEN Reply(500, FALSE)
         ELSE Relayed(v, relay)
    [] v = "readmeA" ->
         IF mail = "noTo" THEN Reply(500, FALSE)
         ELSE IF b.name = "" \/ b.email = "" \/ b.message = ""
              THEN Reply(400, FALSE)
         ELSE IF mail = "noSmtp" THEN Reply(500, FALSE)
         ELSE Relayed(v, relay)
    [] OTHER ->
         IF b.name = "" \/ b.email = "" \/ b.message = "" THEN Reply(400, FALSE)
         ELSE IF mail # "ok" THEN Reply(500, FALSE)
         ELSE Relayed(v, relay)

\* req.path below the /admin mount: dir is "/" or "/assets/", name the rest
Path(d, n) == [dir |-> d, name |-> n]

NoLast ==
  [route |-> "none", client |-> "c1", status |-> 0, authed |-> FALSE,
   exact |-> FALSE, doc |-> Undefined, held |-> FALSE, racing |-> FALSE,
   old |-> Undefined, new |-> Undefined,
   path |-> Path("/", ""), served |-> FALSE, location |-> "",
   body |-> NoBody, handed |-> FALSE, reached |-> FALSE,
   resp |-> [envelope |-> FALSE, data |-> Undefined],
   up |-> "", leaks |-> FALSE, ip |-> "", since |-> -1]

IdleWr ==
  [pc |-> "idle", client |-> "c1", authed |-> FALSE, data |-> Undefined,
   payload |-> Undefined, pos |-> 0, status |-> 0, respDoc |-> Undefined,
   wrote |-> FALSE, excl |-> FALSE, fault |-> FALSE, old |-> Undefined,
   msg |-> ""]

\* a request answered without touching the file
Answered(c, auth, data, st) ==
  [IdleWr EXCEPT !.pc = "done", !.client = c, !.authed = auth, !.data = data,
                 !.status = st]

\* a request that passed the gate and the checks and awaits mkdir
Accepted(c, auth, data, payload) ==
  [IdleWr EXCEPT !.pc = "mkdir", !.client = c, !.authed = auth, !.data = data,
                 !.payload = payload]

\* the request presents an authenticated session (Basic Auth: the credential)
Presents(c, cred) ==
  IF variant = "basic"
  THEN cred.present /\ cred.name = ADMIN_USER /\ cred.pass = ADMIN_PASS
  ELSE variant \in SessionVariants /\ sess[c] = "authed"

\* ----------------------------------------------------------------- inputs
Usernames == {"<undefined>", "", "admin", "boss", "Boss"}
Passwords == {"<undefined>", "", "change-me", "s3cret", "S3cret"}

\* the data fields a client may send to POST /api/site
Candidates(v) ==
  {Undefined, Null, Scalar, Arr, ObjHi, ObjYo, ObjMeta,
   ObjOfSize(Ceiling(v)), ObjOfSize(Ceiling(v) + 1), ObjOfSize(JsonLimit(v) + 1)}

\* ------------------------------------------------------------------- Init
TypeInit ==
  /\ variant \in Variants
  /\ envUser \in {"", "boss"}
  /\ envPass \in {"", "s3cret"}
  /\ envKey \in {"", "key"}
  /\ now = 0
  /\ sess = [c \in Clients |-> "none"]
  /\ file \in InitFiles
  /\ wr = [w \in Writers |-> IdleWr]
  /\ last = NoLast
  /\ life = [c \in Clients |-> NoLife]
  /\ contact \in {[NoContact EXCEPT !.mail = m] : m \in MailCfgs}

\* ------------------------------------------------------ POST /api/site
\* The handler up to its first await: express.json, the session gate, the
\* checks of the body, and writeSiteData up to fsp.mkdir.
PostSite(w, c, data) ==
  /\ variant \in SessionVariants
  /\ wr[w].pc \in {"idle", "done"}
  /\ LET auth == Presents(c, NoCred)
     IN wr' = [wr EXCEPT ![w] =
          IF data.bytes > JsonLimit(variant) THEN Answered(c, auth, data, 413)
          ELSE IF SiteGate(c) # 0 THEN Answered(c, auth, data, 401)
          ELSE IF variant = "smtp" THEN Accepted(c, auth, data, Body(data))
          ELSE IF MissingData(data) THEN Answered(c, auth, data, 400)
          ELSE IF PayloadTooLarge(variant, data.bytes)
               THEN Answered(c, auth, data, 413)
          ELSE Accepted(c, auth, data, Spread(data, now))]
  /\ life' = IF data.bytes > JsonLimit(variant) THEN life ELSE Touch(c)
  /\ UNCHANGED <<variant, envUser, envPass, envKey, now, sess, file, last, contact>>

\* the error text of the 500 answer: String(e?.message || e) of the error fs
\* raised, or the fixed "Failed to save" of the Brevo handler
ErrorText(v) == IF v = "brevo" THEN "Failed to save" ELSE "e.message"

\* fsp.mkdir resolves; fsp.writeFile is called
MkdirDone(w) ==
  /\ wr[w].pc = "mkdir"
  /\ wr' = [wr EXCEPT ![w].pc = "open"]
  /\ UNCHANGED <<variant, envUser, envPass, envKey, now, sess, file, last, life, contact>>

\* fsp.writeFile opens the file with flag "w": created or truncated
OpenDone(w) ==
  /\ wr[w].pc = "open"
  /\ IF file.state = "unreadable"
     THEN /\ wr' = [wr EXCEPT ![w].pc = "done", ![w].status = 500,
                              ![w].fault = TRUE, ![w].msg = ErrorText(variant)]
          /\ file' = file
     ELSE /\ wr' = [x \in Writers |->
                      IF x = w
                      THEN [wr[w] EXCEPT !.pc = "writing", !.pos = 0,
                                         !.wrote = TRUE, !.excl = TRUE,
                                         !.old = readSiteData(variant, file)]
                      ELSE [wr[x] EXCEPT !.excl = FALSE]]
          /\ file' = File("present", <<>>)
  /\ UNCHANGED <<variant, envUser, envPass, envKey, now, sess, last, life, contact>>

\* the bytes of `raw` after a write of `chunk` at offset i - 1
WriteAt(raw, i, chunk) ==
  IF Len(raw) >= i THEN [raw EXCEPT ![i] = chunk]
  ELSE [k \in 1..i |->
          IF k = i THEN chunk
          ELSE IF k <= Len(raw) THEN raw[k]
          ELSE [doc |-> Hole, idx |-> k]]

\* the response of an accepted POST /api/site: {ok, data: saved} ({ok} in smtp)
SavedResponse(v, payload) == IF v \in GuardVariants THEN payload ELSE Undefined

\* one write call of fsp.writeFile; after the last one the handler answers 200
WriteChunk(w) ==
  /\ wr[w].pc = "writing"
  /\ LET i == wr[w].pos + 1
         fin == i = wr[w].payload.len
     IN /\ file' = File("present",
                        WriteAt(file.raw, i, [doc |-> wr[w].payload, idx |-> i]))
        /\ wr' = [x \in Writers |->
                    IF x = w
                    THEN IF fin
                         THEN [wr[w] EXCEPT !.pc = "done", !.pos = i,
                                 !.status = 200,
                                 !.respDoc = SavedResponse(variant, wr[w].payload)]
                         ELSE [wr[w] EXCEPT !.pos = i]
                    ELSE [wr[x] EXCEPT !.excl = FALSE]]
  /\ UNCHANGED <<variant, envUser, envPass, envKey, now, sess, last, life, contact>>

\* mkdir, open or write rejects (EACCES, ENOSPC, EIO): the catch answers 500
FsFail(w) ==
  /\ wr[w].pc \in {"mkdir", "open", "writing"}
  /\ wr' = [wr EXCEPT ![w].pc = "done", ![w].status = 500, ![w].fault = TRUE,
                      ![w].msg = ErrorText(variant)]
  /\ UNCHANGED <<variant, envUser, envPass, envKey, now, sess, file, last, life, contact>>

\* POST /api/site of the brevo variant: no gate, writeJsonSafe is synchronous.
\* outcome: ok | openfail (nothing written) | writefail (the file is cut short)
PostSiteSync(w, c, data, outcome) ==
  /\ variant = "brevo"
  /\ wr[w].pc \in {"idle", "done"}
  /\ file.state = "unreadable" => outcome = "openfail"
  /\ LET auth == Presents(c, NoCred)
         big == data.bytes > JsonLimit(variant)
         ans == Answered(c, auth, data,
                         IF big THEN 413 ELSE IF outcome = "ok" THEN 200 ELSE 500)
     IN /\ big => outcome = "openfail"
        /\ IF big \/ outcome = "openfail"
           THEN /\ file' = file
                /\ wr' = [wr EXCEPT ![w] =
                            [ans EXCEPT !.fault = ~big,
                                        !.msg = IF big THEN ""
                                                ELSE ErrorText(variant)]]
           ELSE /\ file' = File("present",
                                IF outcome = "ok" THEN Serialize(Body(data))
                                ELSE <<>>)
                /\ wr' = [x \in Writers |->
                            IF x = w
                            THEN [ans EXCEPT !.payload = Body(data),
                                     !.wrote = TRUE, !.excl = TRUE,
                                     !.fault = outcome # "ok",
                                     !.msg = IF outcome = "ok" THEN ""
                                             ELSE ErrorText(variant),
                                     !.old = readSiteData(variant, file)]
                            ELSE [wr[x] EXCEPT !.excl = FALSE]]
  /\ UNCHANGED <<variant, envUser, envPass, envKey, now, sess, last, life, contact>>

\* --------------------------------------------------- crash and restart
\* the requests that passed the gate and have not been answered
InFlight == {w \in Writers : wr[w].pc \in {"mkdir", "open", "writing"}}

\* what a new process starts with: an empty MemoryStore, an empty contactHits
Restarted(s) == IF s = "authed" THEN "destroyed" ELSE s

\* The process dies while requests are in flight and is started again.  The
\* file keeps the bytes written so far; pc = "crashed" keeps, of a request
\* that died with the process, what it was writing.
Crash ==
  /\ variant \in SessionVariants
  /\ InFlight # {}
  /\ wr' = [w \in Writers |->
              IF w \in InFlight THEN [wr[w] EXCEPT !.pc = "crashed"] ELSE wr[w]]
  /\ sess' = [c \in Clients |-> Restarted(sess[c])]
  /\ life' = [c \in Clients |-> NoLife]
  /\ contact' = [contact EXCEPT !.hits = [a \in Addresses |-> NoEntry]]
  /\ last' = [NoLast EXCEPT !.route = "crash"]
  /\ UNCHANGED <<variant, envUser, envPass, envKey, now, file>>

\* The brevo process dies inside fs.writeFileSync of a POST /api/site, after
\* the file was opened (truncated) and `cut` of the write calls were made.
PostSiteCrash(w, c, data, cut) ==
  /\ variant = "brevo"
  /\ wr[w].pc \in {"idle", "done"}
  /\ file.state # "unreadable"
  /\ data.bytes <= JsonLimit(variant)
  /\ cut \in 0..(data.len - 1)
  /\ file' = File("present", SubSeq(Serialize(Body(data)), 1, cut))
  /\ wr' = [x \in Writers |->
              IF x = w
              THEN [IdleWr EXCEPT !.pc = "crashed", !.client = c,
                      !.authed = Presents(c, NoCred), !.data = data,
                      !.payload = Body(data), !.pos = cut, !.wrote = TRUE,
                      !.excl = TRUE, !.old = readSiteData(variant, file)]
              ELSE [wr[x] EXCEPT !.excl = FALSE]]
  /\ last' = [NoLast EXCEPT !.route = "crash"]
  /\ UNCHANGED <<variant, envUser, envPass, envKey, now, sess, life, contact>>

\* ------------------------------------------------------- GET /api/site
\* the writer whose file write is the only one in progress, if any
Racing == {w \in Writers : wr[w].pc = "writing" /\ wr[w].excl}

\* {}
EmptyObj == Val("obj", "", 0, 0, -1, 2, 1)

\* the body of the response of GET /api/site: envelope is TRUE for
\* {ok: true, data}, FALSE when the parsed file is sent as it is
SiteResponse(v, f) ==
  LET d == readSiteData(v, f)
  IN CASE v = "brevo" ->
            IF f.state # "present" \/ ParseThrows(f.raw)
            THEN [envelope |-> TRUE, data |-> Null]
            ELSE [envelope |-> FALSE, data |-> JSONparse(f.raw)]
       [] v = "smtp" ->
            [envelope |-> TRUE, data |-> IF Falsy(d) THEN EmptyObj ELSE d]
       [] OTHER ->
            [envelope |-> TRUE, data |-> IF Falsy(d) THEN Null ELSE d]

GetSite(c) ==
  /\ variant \in SiteVariants
  /\ last' = [NoLast EXCEPT !.route = "get", !.client = c, !.status = 200,
                 !.authed = Presents(c, NoCred),
                 !.doc = readSiteData(variant, file),
                 !.resp = SiteResponse(variant, file),
                 !.held = HoldsJsonObject(file),
                 !.racing = Racing # {},
                 !.old = IF Racing = {} THEN Undefined
                         ELSE wr[CHOOSE w \in Racing : TRUE].old,
                 !.new = IF Racing = {} THEN Undefined
                         ELSE wr[CHOOSE w \in Racing : TRUE].payload]
  /\ life' = Touch(c)
  /\ UNCHANGED <<variant, envUser, envPass, envKey, now, sess, file, wr, contact>>

\* ------------------------------------------------------- login, logout
\* POST /api/login (smtp: /api/admin/login)
Login(c, u, p) ==
  /\ variant \in SessionVariants
  /\ LET ok == CredentialsMatch(u, p)
     IN /\ sess' = [sess EXCEPT ![c] = LoginSession(sess[c], ok)]
        /\ last' = [NoLast EXCEPT !.route = "login", !.client = c,
                       !.status = IF ok THEN 200 ELSE 401,
                       !.authed = Presents(c, NoCred),
                       !.exact = (u = ADMIN_USER /\ p = ADMIN_PASS)]
        /\ life' = IF ok THEN [life EXCEPT ![c] = [NoLife EXCEPT !.logged = TRUE]]
                   ELSE Touch(c)
  /\ UNCHANGED <<variant, envUser, envPass, envKey, now, file, wr, contact>>

\* POST /api/logout (smtp: /api/admin/logout)
Logout(c) ==
  /\ variant \in SessionVariants
  /\ sess' = [sess EXCEPT ![c] = DestroySession(sess[c])]
  /\ last' = [NoLast EXCEPT !.route = "logout", !.client = c, !.status = 200,
                 !.authed = Presents(c, NoCred)]
  /\ life' = [life EXCEPT ![c] = NoLife]
  /\ UNCHANGED <<variant, envUser, envPass, envKey, now, file, wr, contact>>

\* ------------------------------------------------------------ the clock
Tick ==
  /\ now < MaxTime
  /\ now' = now + 1
  /\ UNCHANGED <<variant, envUser, envPass, envKey, sess, file, wr, last, life, contact>>

\* TimeStep passes: every stored session grows older and idler, and the ones
\* whose cookie.expires is reached are no longer found in the store.
Elapse ==
  /\ \A c \in Clients : life[c].age < MaxElapse * TimeStep
  /\ \E c \in Clients : sess[c] = "authed"
  /\ LET aged == [c \in Clients |->
                    IF sess[c] = "authed"
                    THEN [life[c] EXCEPT !.age = @ + TimeStep,
                                         !.idle = @ + TimeStep]
                    ELSE life[c]]
     IN /\ life' = aged
        /\ sess' = [c \in Clients |->
                      IF sess[c] = "authed" /\ Expired(aged[c])
                      THEN "destroyed" ELSE sess[c]]
  /\ UNCHANGED <<variant, envUser, envPass, envKey, now, file, wr, last, contact>>

\* ------------------------------------------------------ POST /api/contact
\* one request from address ip, carrying the X-Forwarded-For entry xff and the
\* body b, while the relay behaves as relay
Contact(ip, xff, b, relay) ==
  /\ variant \in ContactVariants
  /\ ip = "a1" => contact.n < MaxRequests
  /\ contact.hits[Key(ip, xff)].count < MaxRequests
  /\ LET t == contact.now
         key == Key(ip, xff)
         h == contact.hits[key]
         e == RateLimit(h.known, h.count, h.ts, t)
         limited == variant = "smtp" /\ e.count > ContactMax
         r == IF limited THEN Reply(429, FALSE)
              ELSE ContactHandler(variant, contact.mail, b, relay)
         fresh == contact.lastT < 0 \/ t - contact.lastT > WindowMs
         k == IF fresh THEN 1 ELSE contact.n + 1
         q0 == IF fresh THEN 0 ELSE contact.passed
         hits == IF variant = "smtp"
                 THEN [contact.hits EXCEPT
                         ![key] = [known |-> TRUE, count |-> e.count, ts |-> e.ts]]
                 ELSE contact.hits
     IN /\ contact' =
             IF ip = "a1"
             THEN [contact EXCEPT
                     !.hits = hits,
                     !.lastT = t,
                     !.first = IF fresh THEN t ELSE @,
                     !.n = k,
                     !.passed = IF k <= ContactMax /\ ~limited THEN q0 + 1 ELSE q0,
                     !.st11 = IF fresh THEN 0
                              ELSE IF k = ContactMax + 1 THEN r.status ELSE @,
                     !.t11 = IF fresh THEN 0
                             ELSE IF k = ContactMax + 1 THEN t ELSE @,
                     !.p0 = IF limited THEN @ ELSE @ + 1]
             ELSE [contact EXCEPT !.hits = hits]
        /\ last' = [NoLast EXCEPT !.route = "contact", !.status = r.status,
                       !.body = b, !.handed = r.handed, !.reached = ~limited,
                       !.ip = ip,
                       !.since = IF variant = "smtp" /\ h.known THEN t - h.ts
                                 ELSE -1]
  /\ UNCHANGED <<variant, envUser, envPass, envKey, now, sess, file, wr, life>>

\* ContactStep passes on the limiter's clock
ContactWait ==
  /\ variant \in ContactVariants
  /\ contact.now < MaxContactSteps * ContactStep
  /\ contact' = [contact EXCEPT !.now = @ + ContactStep,
                                !.p1 = contact.p0, !.p0 = 0]
  /\ UNCHANGED <<variant, envUser, envPass, envKey, now, sess, file, wr, last,
                 life>>

\* ------------------------------------------------------ the admin pages
\* the files of ADMIN_DIR; "/" stands for the directory's index.html
AdminFiles ==
  {Path("/", ""), Path("/", "login.html"), Path("/", "index.html"),
   Path("/", "app.js"), Path("/assets/", "app.js"), Path("/assets/", "login.css")}

\* the paths a client may ask for below /admin
AdminPaths ==
  AdminFiles \cup {Path("/", "login"), Path("/", "assets"), Path("/", "nope.js"),
                   Path("/assets/", "nope.js")}

\* openPaths.has(p) || p.startsWith("/assets")
OpenPath(p) ==
  \/ p.dir = "/" /\ p.name \in {"login.html", "login", "assets"}
  \/ p.dir = "/assets/"

\* a guard that lets everyone through
AdminGuardOpen(c, p) == 0

\* the guard in front of express.static(ADMIN_DIR): 0 stands for next(), 302
\* for res.redirect("/admin/login.html")
AdminGuard(c, p) ==
  IF variant = "smtp" /\ OpenPath(p) THEN 0
  ELSE IF ~isAuthed(c) THEN 302
  ELSE 0

\* express.static(ADMIN_DIR): the file, or next() and in the end 404; smtp
\* leaves redirect on, so the bare directory name is sent to its slash form
StaticAdmin(p) ==
  IF p \in AdminFiles THEN [status |-> 200, served |-> TRUE, location |-> ""]
  ELSE IF variant = "smtp" /\ p = Path("/", "assets")
       THEN [status |-> 301, served |-> FALSE, location |-> "/admin/assets/"]
  ELSE [status |-> 404, served |-> FALSE, location |-> ""]

ToLogin == [status |-> 302, served |-> FALSE, location |-> "/admin/login.html"]

\* GET /admin/<path> with Basic Auth credentials cred (basic variant only)
AdminPage(c, p, cred) ==
  /\ variant \in SessionVariants \cup {"basic"}
  /\ variant # "basic" => cred = NoCred
  /\ LET r == IF variant = "basic"
              THEN IF requireAdmin(cred) # 0
                   THEN [status |-> 401, served |-> FALSE, location |-> ""]
                   ELSE StaticAdmin(p)
              ELSE IF variant \in GuardVariants /\ p = Path("/", "")
                   THEN ToLogin
              ELSE IF variant \in GuardVariants /\ p = Path("/", "login.html")
                   THEN [status |-> 200, served |-> TRUE, location |-> ""]
              ELSE IF AdminGuard(c, p) # 0 THEN ToLogin
              ELSE StaticAdmin(p)
     IN last' = [NoLast EXCEPT !.route = "admin", !.client = c, !.path = p,
                    !.authed = Presents(c, cred), !.status = r.status,
                    !.served = r.served, !.location = r.location]
  /\ life' = Touch(c)
  /\ UNCHANGED <<variant, envUser, envPass, envKey, now, sess, file, wr, contact>>

\* ------------------------------------------------------ POST /api/upload
\* multer in front of the handler: the guarded variants take images of at
\* most 8 MB (anything else ends in the default error handler, 500); smtp
\* takes any file.  f: none | image | text | huge
UploadStatus(v, f) ==
  IF f = "none" THEN 400
  ELSE IF v \in GuardVariants /\ f \in {"text", "huge"} THEN 500
  ELSE 200

Upload(c, f) ==
  /\ variant \in SessionVariants
  /\ last' = [NoLast EXCEPT !.route = "upload", !.client = c,
                 !.authed = Presents(c, NoCred),
                 !.status = IF requireSessionApi(c) # 0 THEN 401
                            ELSE UploadStatus(variant, f)]
  /\ life' = Touch(c)
  /\ UNCHANGED <<variant, envUser, envPass, envKey, now, sess, file, wr, contact>>

\* ----------------------------------------------- POST /api/gemini/generate
\* up: the outcome of the outbound fetch: ok | refused (non-2xx) | throws
GenerateStatus(hasBody, up) ==
  IF envKey = "" THEN 500
  ELSE IF ~hasBody THEN 400
  ELSE IF up = "throws" THEN 500
  ELSE IF up = "refused" THEN 429
  ELSE 200

\* the handler gets as far as fetch(url)
Calls(c, cred, hasBody) == GeminiGate(c, cred) = 0 /\ envKey # "" /\ hasBody

\* the response body holds the key: fetch is node-fetch, whose FetchError
\* message is "request to <url> failed, reason: ...", url ending in ?key=<key>,
\* and the catch answers with String(e?.message || e).  The body of an
\* upstream answer is taken to be free of the key.
EchoesUrl(up) == up = "throws"

GeminiGenerate(c, cred, hasBody, up) ==
  /\ variant \in GeminiVariants
  /\ variant # "basic" => cred = NoCred
  /\ last' = [NoLast EXCEPT !.route = "gemini", !.client = c,
                 !.authed = Presents(c, cred),
                 !.status = IF GeminiGate(c, cred) # 0 THEN 401
                            ELSE GenerateStatus(hasBody, up),
                 !.up = IF Calls(c, cred, hasBody) THEN up ELSE "",
                 !.leaks = Calls(c, cred, hasBody) /\ EchoesUrl(up)]
  /\ life' = Touch(c)
  /\ UNCHANGED <<variant, envUser, envPass, envKey, now, sess, file, wr, contact>>

\* ------------------------------------------------- GET /api/gemini/models
\* Only smtp wraps the handler in try/catch.  Elsewhere a rejected fetch
\* rejects the async handler: rescue is what the framework makes of that,
\* none (Express 4: the request is never answered), page (Express 5 in
\* production: a bare 500), stack (Express 5 otherwise: a 500 that prints
\* err.stack, message included).  Status 0 stands for "never answered".
ModelsOutcome(up, rescue) ==
  IF envKey = "" THEN [status |-> 500, leaks |-> FALSE]
  ELSE IF up = "throws"
       THEN IF variant = "smtp" THEN [status |-> 500, leaks |-> EchoesUrl(up)]
            ELSE IF rescue = "none" THEN [status |-> 0, leaks |-> FALSE]
            ELSE [status |-> 500, leaks |-> rescue = "stack"]
  ELSE IF up = "refused" THEN [status |-> 429, leaks |-> FALSE]
  ELSE [status |-> 200, leaks |-> FALSE]

GeminiModels(c, cred, up, rescue) ==
  /\ variant \in GeminiVariants
  /\ variant # "basic" => cred = NoCred
  /\ LET open == GeminiGate(c, cred) = 0
         r == IF open THEN ModelsOutcome(up, rescue)
              ELSE [status |-> 401, leaks |-> FALSE]
     IN last' = [NoLast EXCEPT !.route = "models", !.client = c,
                    !.authed = Presents(c, cred), !.status = r.status,
                    !.up = IF open /\ envKey # "" THEN up ELSE "",
                    !.leaks = r.leaks]
  /\ life' = Touch(c)
  /\ UNCHANGED <<variant, envUser, envPass, envKey, now, sess, file, wr, contact>>

\* ---------------------------------------------------------- specifications
\* SpecAuth: the gate.  Every variant, every setting of the credentials, two
\* clients, one POST /api/site at a time.
InitAuth ==
  /\ TypeInit
  /\ contact = NoContact
  /\ envKey = "key"
  /\ file = File("present", Serialize(ObjOld))

AuthBodies == {Undefined, Arr, ObjHi}

BasicCreds == {NoCred, Cred("admin", "change-me"), Cred("boss", "s3cret"),
               Cred("Boss", "s3cret")}

NextAuth ==
  \/ \E c \in Clients, u \in Usernames, p \in Passwords : Login(c, u, p)
  \/ \E c \in Clients : Logout(c)
  \/ \E c \in Clients, d \in AuthBodies : PostSite("w1", c, d)
  \/ \E c \in Clients, d \in AuthBodies,
        o \in {"ok", "openfail", "writefail"} : PostSiteSync("w1", c, d, o)
  \/ MkdirDone("w1")
  \/ OpenDone("w1")
  \/ WriteChunk("w1")
  \/ \E c \in Clients, f \in {"none", "image", "text", "huge"} : Upload(c, f)
  \/ \E c \in Clients, cred \in BasicCreds, b \in BOOLEAN,
        up \in {"ok", "refused", "throws"} : GeminiGenerate(c, cred, b, up)

SpecAuth == InitAuth /\ [][NextAuth]_vars

\* SpecLogin: SpecAuth on the servers that have a credential configured, set
\* in the environment or defaulted by the code (smtp defaults to none).
InitLogin ==
  /\ InitAuth
  /\ variant = "smtp" => (envUser # "" /\ envPass # "")

SpecLogin == InitLogin /\ [][NextAuth]_vars

\* SpecSession: the life of the sessions.  Two clients log in and out, send
\* gated requests and let time pass.
InitSession ==
  /\ InitAuth
  /\ variant \in SessionVariants
  /\ envUser = "boss" /\ envPass = "s3cret"

NextSession ==
  \/ \E c \in Clients, p \in {"s3cret", "S3cret"} : Login(c, "boss", p)
  \/ \E c \in Clients : Logout(c)
  \/ \E c \in Clients : Upload(c, "none")
  \/ \E c \in Clients : GetSite(c)
  \/ Elapse

SpecSession == InitSession /\ [][NextSession]_vars

\* SpecPages: the two faces of the gate.  Clients ask for admin pages and call
\* the gated API routes, logged in or not.
InitPages ==
  /\ InitAuth
  /\ variant \in SessionVariants \cup {"basic"}

NextPages ==
  \/ \E c \in Clients, p \in {"s3cret", "change-me", "nope"} :
        Login(c, ADMIN_USER, p)
  \/ \E c \in Clients : Logout(c)
  \/ \E c \in Clients, p \in AdminPaths, cred \in BasicCreds :
        AdminPage(c, p, cred)
  \/ \E c \in Clients : Upload(c, "image")
  \/ \E c \in Clients, cred \in BasicCreds : GeminiGenerate(c, cred, TRUE, "ok")
  \/ \E c \in Clients : PostSite("w1", c, ObjHi)
  \/ MkdirDone("w1")
  \/ OpenDone("w1")
  \/ WriteChunk("w1")

SpecPages == InitPages /\ [][NextPages]_vars

\* SpecContact: one address sends a few contact requests of every shape.
ContactBodies ==
  {ContactBody(n, e, m, w) :
     n \in {"", "A"}, e \in {"", " ", "a@b.com"}, m \in FieldValues,
     w \in {"", "x"}}

InitContact ==
  /\ TypeInit
  /\ variant \in ContactVariants
  /\ envUser = "boss" /\ envPass = "s3cret" /\ envKey = ""
  /\ file = File("present", Serialize(ObjOld))

NextContact ==
  \/ \E b \in ContactBodies, relay \in {"ok", "refused", "throws"} :
        contact.n < 2 /\ Contact("a1", "", b, relay)
  \/ ContactWait

SpecContact == InitContact /\ [][NextContact]_vars

\* SpecRate: one address sends up to MaxRequests contact requests, quickly or
\* with pauses.
RateBodies ==
  {ContactBody("A", "a@b.com", "hello", ""), ContactBody("", "a@b.com", "hello", ""),
   ContactBody("A", "a@b.com", "hello", "x")}

NextRate ==
  \/ \E b \in RateBodies, relay \in {"ok", "throws"} :
        Contact("a1", "", b, relay)
  \/ ContactWait

SpecRate == InitContact /\ [][NextRate]_vars

\* SpecLimiter: two addresses send contact requests, without an
\* X-Forwarded-For header or with the other address in it, quickly or with
\* pauses.
InitLimiter ==
  /\ InitContact
  /\ contact = NoContact

NextLimiter ==
  \/ \E ip \in Addresses : \E xff \in Forwarded \ {ip} :
        /\ contact.hits["a1"].count + contact.hits["a2"].count < MaxRequests
        /\ Contact(ip, xff, ContactBody("A", "a@b.com", "hello", ""), "ok")
  \/ ContactWait

SpecLimiter == InitLimiter /\ [][NextLimiter]_vars

\* SpecGemini: the proxy routes, with and without a key, whatever the upstream
\* does.
InitGemini ==
  /\ TypeInit
  /\ contact = NoContact
  /\ variant \in GeminiVariants
  /\ file = File("present", Serialize(ObjOld))

NextGemini ==
  \/ \E c \in Clients, p \in {"s3cret", "change-me", "nope"} :
        Login(c, ADMIN_USER, p)
  \/ \E c \in Clients : Logout(c)
  \/ \E c \in Clients, cred \in BasicCreds, b \in BOOLEAN,
        up \in {"ok", "refused", "throws"} : GeminiGenerate(c, cred, b, up)
  \/ \E c \in Clients, cred \in BasicCreds, up \in {"ok", "refused", "throws"},
        rescue \in {"none", "page", "stack"} : GeminiModels(c, cred, up, rescue)

SpecGemini == InitGemini /\ [][NextGemini]_vars

\* SpecStore: the content store, one POST /api/site at a time, every file a
\* deployment may find on its disk, storage faults included.
InitStore ==
  /\ TypeInit
  /\ contact = NoContact
  /\ variant \in SiteVariants
  /\ envUser = "boss" /\ envPass = "s3cret" /\ envKey = ""

NextStore ==
  \/ Login("c1", "boss", "s3cret")
  \/ \E d \in Candidates(variant) : PostSite("w1", "c1", d)
  \/ \E d \in Candidates(variant), o \in {"ok", "openfail", "writefail"} :
        PostSiteSync("w1", "c1", d, o)
  \/ MkdirDone("w1")
  \/ OpenDone("w1")
  \/ WriteChunk("w1")
  \/ FsFail("w1")
  \/ GetSite("c2")
  \/ Tick

SpecStore == InitStore /\ [][NextStore]_vars

\* SpecRace: two POST /api/site and a GET /api/site running concurrently on
\* a disk without faults.
InitRace ==
  /\ TypeInit
  /\ contact = NoContact
  /\ variant \in SiteVariants
  /\ envUser = "boss" /\ envPass = "s3cret" /\ envKey = ""
  /\ file \in {File("missing", <<>>), File("present", Serialize(ObjOld))}

NextRace ==
  \/ Login("c1", "boss", "s3cret")
  \/ \E w \in Writers, d \in {ObjHi, ObjYo} : PostSite(w, "c1", d)
  \/ \E w \in Writers, d \in {ObjHi, ObjYo} : PostSiteSync(w, "c1", d, "ok")
  \/ \E w \in Writers : MkdirDone(w)
  \/ \E w \in Writers : OpenDone(w)
  \/ \E w \in Writers : WriteChunk(w)
  \/ GetSite("c2")
  \/ Tick

SpecRace == InitRace /\ [][NextRace]_vars

\* SpecCrash: the process may die while POST /api/site requests are in
\* flight; it is started again and serves the file it finds.
NextCrash ==
  \/ Login("c1", "boss", "s3cret")
  \/ \E w \in Writers, d \in {ObjHi, ObjYo} : PostSite(w, "c1", d)
  \/ \E w \in Writers, d \in {ObjHi, ObjYo} : PostSiteSync(w, "c1", d, "ok")
  \/ \E w \in Writers, d \in {ObjHi, ObjYo}, cut \in 0..1 :
        PostSiteCrash(w, "c1", d, cut)
  \/ \E w \in Writers : MkdirDone(w)
  \/ \E w \in Writers : OpenDone(w)
  \/ \E w \in Writers : WriteChunk(w)
  \/ Crash
  \/ GetSite("c2")

SpecCrash == InitRace /\ [][NextCrash]_vars

\* ------------------------------------------------------------- the claims

\* C1: in every variant, a request to a mutating endpoint (POST /api/site,
\* POST /api/upload, POST /api/gemini/generate) that presents no authenticated
\* session is answered 401 and leaves the persisted document as it was.
C1_AuthGate ==
  /\ \A w \in Writers :
       (wr[w].pc # "idle" /\ ~wr[w].authed) =>
         (wr[w].status = 401 /\ ~wr[w].wrote)
  /\ (last.route \in {"upload", "gemini"} /\ ~last.authed) => last.status = 401

\* d plus the injected _meta.savedAt
PlusSavedAt(d, t) == [d EXCEPT !.savedAt = t]

\* C2: after an accepted write(d) of a JSON object d, with no other write in
\* between, read() returns exactly d plus the injected _meta.savedAt, and that
\* is the document the write returned.  (Stated for the variants that stamp
\* the document.)
C2_RoundTrip ==
  \A w \in Writers :
    (/\ variant \in GuardVariants
     /\ wr[w].pc = "done" /\ wr[w].status = 200 /\ wr[w].excl
     /\ IsJsonObject(wr[w].data)) =>
      \E t \in 0..MaxTime :
        /\ readSiteData(variant, file) = PlusSavedAt(wr[w].data, t)
        /\ wr[w].respDoc = PlusSavedAt(wr[w].data, t)

\* C3: a GET /api/site that reads the file while one POST /api/site is writing
\* it returns the complete old or the complete new document.
C3_ReadOldOrNew ==
  (last.route = "get" /\ last.racing) => last.doc \in {last.old, last.new}

\* C4: two authenticated POST /api/site with different valid candidates are
\* both answered 200, and once both have finished the persisted document is
\* exactly one of the two stored documents.
C4_LastWriterWins ==
  \A a \in Writers, b \in Writers :
    (/\ a # b
     /\ wr[a].pc = "done" /\ wr[b].pc = "done"
     /\ wr[a].authed /\ wr[b].authed
     /\ wr[a].data # wr[b].data) =>
      /\ wr[a].status = 200 /\ wr[b].status = 200
      /\ readSiteData(variant, file) \in {wr[a].payload, wr[b].payload}

\* C5: read() returns Absent whenever the file is missing, unreadable, empty
\* or holds anything but a JSON object (an array and a scalar included).
C5_AbsentUnlessObject ==
  (last.route = "get" /\ ~last.held) => last.doc = Null

\* C6: an authenticated POST /api/site whose data is missing or is not a JSON
\* object is answered 400 and writes nothing.  (Stated for the variants that
\* check the body.)
C6_RejectsNonObject ==
  \A w \in Writers :
    (/\ variant \in GuardVariants
     /\ wr[w].pc # "idle" /\ wr[w].authed
     /\ ~IsJsonObject(wr[w].data)) =>
      (wr[w].status = 400 /\ ~wr[w].wrote)

\* C7: an authenticated POST /api/site whose data serializes to exactly the
\* ceiling is accepted (never 400, 401 or 413; 200 once the file is written,
\* 500 only when the disk fails), and one of ceiling + 1 bytes is answered 413
\* and writes nothing.
C7_SizeCeiling ==
  \A w \in Writers :
    (wr[w].authed /\ IsJsonObject(wr[w].data)) =>
      /\ (wr[w].pc # "idle" /\ wr[w].data.bytes = Ceiling(variant) + 1) =>
           (wr[w].pc = "done" /\ wr[w].status = 413 /\ ~wr[w].wrote)
      /\ (wr[w].pc # "idle" /\ wr[w].data.bytes = Ceiling(variant)) =>
           wr[w].status \notin {400, 401, 413}
      /\ (wr[w].pc = "done" /\ wr[w].data.bytes = Ceiling(variant)) =>
           (wr[w].status = 200 \/ (wr[w].fault /\ wr[w].status = 500))

\* C8 as stated: login answers 200 and authenticates the session iff both
\* fields equal the credential; otherwise it answers 401 and a following
\* POST /api/site on that session is answered 401.
C8_LoginAsStated ==
  last.route = "login" =>
    /\ last.status = 200 <=> last.exact
    /\ last.status = 200 => isAuthed(last.client)
    /\ last.status # 200 =>
         (last.status = 401 /\ SiteGate(last.client) = 401)

\* C8 amended: a failed login answers 401 and leaves the session as it was,
\* so a following POST /api/site is answered 401 unless the session was
\* authenticated before the attempt.
C8_Login ==
  last.route = "login" =>
    /\ last.status = 200 <=> last.exact
    /\ last.status = 200 => isAuthed(last.client)
    /\ last.status # 200 =>
         /\ last.status = 401
         /\ isAuthed(last.client) <=> last.authed
         /\ ~last.authed => SiteGate(last.client) = 401

\* a failed attempt on a session that was authenticated before it
C8_Witness ==
  last.route = "login" /\ last.status = 401 /\ last.authed /\ ~last.exact

\* C9: in the smtp variant, while ADMIN_USER or ADMIN_PASS is not set every
\* login attempt is answered 401 and no session is authenticated.
C9_NoLoginWithoutCredentials ==
  (variant = "smtp" /\ (envUser = "" \/ envPass = "")) =>
    /\ \A c \in Clients : ~isAuthed(c)
    /\ last.route = "login" => last.status = 401

\* C10: logout is answered 200 whatever the session, and afterwards the
\* session is not authenticated and POST /api/site on it is gated with 401.
C10_Logout ==
  last.route = "logout" =>
    /\ last.status = 200
    /\ ~isAuthed(last.client)
    /\ SiteGate(last.client) = 401

\* a second logout, on a session an earlier logout destroyed
C10_Witness ==
  last.route = "logout" /\ ~last.authed /\ sess[last.client] = "destroyed"

\* C11: a client is treated as authenticated iff a successful login happened
\* on its session, no logout has happened on it since, and the session is not
\* older than the 12-hour maximum.
C11_AuthedIffLiveSession ==
  \A c \in Clients :
    /\ isAuthed(c) => (life[c].logged /\ life[c].age <= SessionMaxAge)
    /\ (life[c].logged /\ life[c].age < SessionMaxAge) => isAuthed(c)

\* what a server leaves open below /admin: the login page, and in smtp the
\* paths its guard lists as open
LoginAsset(p) ==
  IF variant = "smtp" THEN OpenPath(p) ELSE p = Path("/", "login.html")

C13_OnlyGatedWrites ==
  [][file' # file =>
       \E w \in Writers :
         /\ wr'[w].wrote /\ wr'[w].pc \in {"writing", "done"}
         /\ wr'[w].authed /\ IsJsonObject(wr'[w].data)]_vars

\* C14: when an address that was quiet for a minute sends 11 POST /api/contact
\* within one minute, the first 10 reach the handler and the 11th is answered
\* 429, whatever the bodies are.
C14_RateLimit ==
  (/\ variant \in ContactVariants
   /\ contact.st11 # 0
   /\ contact.t11 - contact.first <= WindowMs) =>
    (contact.passed = ContactMax /\ contact.st11 = 429)

\* C15: while the mail relay is not configured, a POST /api/contact with
\* non-blank name, email and message is answered 500, never a success.
\* (Stated for the requests that reach the handler and leave the honeypot
\* field empty.)
C15_UnconfiguredRelay ==
  (/\ last.route = "contact" /\ contact.mail # "ok"
   /\ last.reached /\ last.body.website = ""
   /\ Trim(last.body.name) # "" /\ Trim(last.body.email) # ""
   /\ Trim(last.body.message) # "") =>
    last.status = 500

\* C16: a POST /api/contact in which name, email or message is missing or
\* empty is answered 400, whatever the mail configuration, and nothing is
\* handed to the relay.  (Stated for the requests that reach the handler and
\* leave the honeypot field empty.)
C16_MissingFields ==
  (/\ last.route = "contact"
   /\ last.reached /\ last.body.website = ""
   /\ (last.body.name = "" \/ last.body.email = "" \/ last.body.message = "")) =>
    (last.status = 400 /\ ~last.handed)

\* C17: GET /api/site needs no session and answers 200 with the envelope
\* {ok, data}, where data is what read() returns: the document, or null when
\* it is absent.
C17_GetEnvelope ==
  last.route = "get" =>
    /\ last.status = 200
    /\ last.resp.envelope
    /\ last.resp.data = last.doc

\* C18: when creating the data directory or writing the file fails during an
\* accepted POST /api/site, the request is answered 500 with the message of
\* the underlying error, never 200.
C18_StorageFailure ==
  \A w \in Writers :
    wr[w].fault =>
      (wr[w].pc = "done" /\ wr[w].status = 500 /\ wr[w].msg = "e.message")

\* C19: every authenticated request to a Gemini proxy route is answered: with
\* the upstream status when the upstream answers non-success, with 500 when
\* the outbound call itself fails.
C19_ProxyAnswers ==
  (last.route \in {"gemini", "models"} /\ last.authed) =>
    /\ last.status # 0
    /\ last.up = "throws" => last.status = 500
    /\ last.up = "refused" => last.status = 429

\* C20: no response of the server holds the Gemini API key or a string built
\* from it.
C20_KeyNotExposed == ~last.leaks

\* C21: in the server that has the limiter, of the POST /api/contact an address
\* sends within any 60 seconds at most 10 reach the handler.  (p0 + p1 counts
\* the ones that did within the last ContactStep, half of that.)
C21_RollingWindow ==
  variant = "smtp" => contact.p0 + contact.p1 <= ContactMax

\* C26: a POST /api/contact sent more than 60 seconds after the start of the
\* window it falls under passes the limiter, and an address is answered 429
\* only when it has itself sent more than 10 requests without a quiet minute.
C26_AdmittedAgain ==
  last.route = "contact" =>
    /\ last.since > WindowMs => last.reached
    /\ (last.ip = "a1" /\ last.status = 429) => contact.n > ContactMax

\* C22: after the process died during the file write of a POST /api/site (the
\* only write in progress), GET /api/site is answered 200 and read() returns
\* the complete old document, the complete new document or Absent.
C22_CrashMidWrite ==
  \A w \in Writers :
    (last.route = "get" /\ wr[w].pc = "crashed" /\ wr[w].wrote /\ wr[w].excl) =>
      /\ last.status = 200
      /\ last.doc \in {wr[w].old, wr[w].payload, Null}

\* the write of a two-call document died after its first call, over a file
\* that held a document: the read after the restart returns Absent
C22_Witness ==
  \E w \in Writers :
    /\ last.route = "get" /\ wr[w].pc = "crashed" /\ wr[w].wrote /\ wr[w].excl
    /\ wr[w].pos = 1 /\ Len(file.raw) = 1
    /\ wr[w].old.kind = "obj" /\ last.doc = Null

\* C23: a POST /api/site that is answered 200 has not replaced a stamped
\* document on disk with one that carries an earlier _meta.savedAt.
C23_SavedAtMonotone ==
  \A w \in Writers :
    (/\ wr[w].pc = "done" /\ wr[w].status = 200 /\ wr[w].wrote
     /\ wr[w].old.kind = "obj"
     /\ wr[w].old.savedAt >= 0 /\ wr[w].payload.savedAt >= 0) =>
      wr[w].payload.savedAt >= wr[w].old.savedAt

\* C24: a step of a POST /api/site changes the persisted document only while
\* the session the request came on is still authenticated: after the logout
\* of that session was answered, a request that had passed the gate before
\* changes nothing any more.
C24_NoWriteAfterLogout ==
  [][(variant \in SessionVariants /\ file' # file) =>
       \A w \in Writers :
         (wr'[w].pc # wr[w].pc \/ wr'[w].pos # wr[w].pos) =>
           sess[wr[w].client] = "authed"]_vars

====
